---------------------------- MODULE Spec2Model ----------------------------
(***************************************************************************)
(* QShare (server.py): a LAN file-sharing daemon.                          *)
(*                                                                         *)
(* Two specifications are given over one set of variables:                 *)
(*   SpecFiles   - the HTTP transfer service (upload, download) acting on   *)
(*                 the shared directory, one thread per request;            *)
(*   SpecStartup - run(): advertise-IP resolution, the Windows portproxy    *)
(*                 provisioner, the mDNS broadcaster thread, the HTTP       *)
(*                 server and process termination, over several runs on    *)
(*                 one host.                                               *)
(*                                                                         *)
(* Strings are sequences of one-character strings, so that sanitising,     *)
(* splitting and formatting are computed and not assumed.                  *)
(***************************************************************************)
EXTENDS Integers, Sequences, FiniteSets, TLC

VARIABLES
    shared,     \* SHARED_DIR: entry name -> [kind, data]
    mtime,      \* st_mtime of each entry of SHARED_DIR, in ticks of the clock
    now,        \* the clock, in ticks
    ls,         \* GET /api/list: the response being sent, if any
    up,         \* per request thread: the upload it is executing
    hist,       \* responses of completed uploads, in order of completion
    dl,         \* the response of the last download request
    nreq,       \* number of upload requests accepted so far
    host,       \* the Windows host: portproxy mappings and firewall rules
    environ,    \* os.environ of the process: QSHARE_IP, QSHARE_PORT
    runs,       \* number of times the program has been started on this host
    proc,       \* "running", or how the process ended
    pc,         \* the main thread's position in run()
    loc,        \* run()'s locals: port, advertise_ip, wsl_ip; wsl is is_wsl()'s answer,
                \* probe the outcome of the UDP connect, query what run_cmd returned
    pp,         \* ensure_windows_portproxy: calls, commands run, report printed
    bcast,      \* the broadcaster thread: position and arguments
    zc,         \* the Zeroconf handle and the service record on the network
    http,       \* the HTTP server: "off" or "serving", and its port
    prev        \* the previous provisioner invocation on this host

lvars == <<now, ls>>
fvars == <<shared, mtime, up, hist, dl, nreq, lvars>>
svars == <<host, environ, runs, proc, pc, loc, pp, bcast, zc, http, prev>>
vars == <<fvars, svars>>

----------------------------------------------------------------------------
(* Bounds *)

MaxUploads == 3
MaxRuns == 2
\* SpecList: ticks of the clock, and entries of the directory that is listed
MaxTicks == 2
MaxEntries == 4

\* two request threads of the threaded HTTP server
Workers == {1, 2}

----------------------------------------------------------------------------
(* Strings *)

Digits == <<"0", "1", "2", "3", "4", "5", "6", "7", "8", "9">>

\* [A-Za-z0-9_.-], the characters _filename_ascii_strip_re keeps
SafeChars == {"r", "t", "d", "p", "s", "x", "_", ".", "-"} \cup {Digits[k] : k \in 1..10}

RECURSIVE str(_)
\* Python's str(int) for i >= 0: decimal digits, most significant first
str(i) == IF i < 10 THEN <<Digits[i + 1]>> ELSE str(i \div 10) \o <<Digits[(i % 10) + 1]>>

\* s.rfind(c): the last index (1-based) of c in s, 0 when absent
rfind(s, c) ==
    LET I == {k \in 1..Len(s) : s[k] = c}
    IN  IF I = {} THEN 0 ELSE CHOOSE k \in I : \A j \in I : j <= k

\* s[i:] with a 0-based start index
From(s, i) == SubSeq(s, i + 1, Len(s))

\* s[:i] with a 0-based end index
Upto(s, i) == SubSeq(s, 1, i)

RECURSIVE lstrip(_, _)
lstrip(s, cs) == IF s # <<>> /\ Head(s) \in cs THEN lstrip(Tail(s), cs) ELSE s

RECURSIVE rstrip(_, _)
rstrip(s, cs) ==
    IF s # <<>> /\ s[Len(s)] \in cs THEN rstrip(SubSeq(s, 1, Len(s) - 1), cs) ELSE s

\* s.strip(cs)
strip(s, cs) == rstrip(lstrip(s, cs), cs)

\* filename.replace(os.sep, " ")
ReplaceSep(s) == [k \in 1..Len(s) |-> IF s[k] = "/" THEN " " ELSE s[k]]

RECURSIVE SplitJoinFrom(_, _, _, _)
SplitJoinFrom(s, k, acc, pend) ==
    IF k > Len(s) THEN acc
    ELSE IF s[k] = " " THEN SplitJoinFrom(s, k + 1, acc, acc # <<>>)
    ELSE SplitJoinFrom(s, k + 1, (IF pend THEN acc \o <<"_">> ELSE acc) \o <<s[k]>>, FALSE)

\* "_".join(s.split())
SplitJoin(s) == SplitJoinFrom(s, 1, <<>>, FALSE)

IsSafeChar(c) == c \in SafeChars

\* werkzeug.utils.secure_filename on a POSIX host
secure_filename(s) ==
    strip(SelectSeq(SplitJoin(ReplaceSep(s)), IsSafeChar), {".", "_"})

\* os.path.basename
basename(p) == From(p, rfind(p, "/"))

\* os.path.splitext: the extension starts at the last dot, unless only dots
\* precede it in the final component
splitext(p) ==
    LET sepIndex == rfind(p, "/") - 1
        dotIndex == rfind(p, ".") - 1
    IN  IF dotIndex > sepIndex
           /\ \E k \in (sepIndex + 1)..(dotIndex - 1) : p[k + 1] # "."
        THEN <<Upto(p, dotIndex), From(p, dotIndex)>>
        ELSE <<p, <<>>>>

\* os.path.join of two parts
join(a, b) ==
    IF b # <<>> /\ Head(b) = "/" THEN b
    ELSE IF a = <<>> \/ a[Len(a)] = "/" THEN a \o b
    ELSE a \o <<"/">> \o b


----------------------------------------------------------------------------
(* The file system: "/" holds the regular file "p" and the directory "s",   *)
(* which is SHARED_DIR; every subdirectory of SHARED_DIR holds one file "x" *)

SHARED_DIR == <<"/", "s">>

OutsideData == <<9>>
SubdirData == <<8>>

None == [kind |-> "none"]
Dir(at) == [kind |-> "dir", at |-> at]
Special(at) == [kind |-> "special", at |-> at]
File(at, name, data) == [kind |-> "file", at |-> at, name |-> name, data |-> data]

\* F of the value of e: what a local variable holds is computed once
Once(e, F(_)) == CHOOSE r \in {F(x) : x \in {e}} : TRUE

RECURSIVE Split(_)
\* p.split("/")
Split(p) ==
    LET I == {k \in 1..Len(p) : p[k] = "/"}
    IN  IF I = {} THEN <<p>>
        ELSE Once(CHOOSE k \in I : \A j \in I : k <= j,
                  LAMBDA k : Once(From(p, k),
                                  LAMBDA rest : <<Upto(p, k - 1)>> \o Split(rest)))

\* one component of path resolution (the kernel's lookup), sh the directory
Step(node, c, sh) ==
    IF node.kind # "dir" THEN None
    ELSE IF c \in {<<>>, <<".">>} THEN node
    ELSE IF c = <<".", ".">>
         THEN IF node.at = "sub" THEN Dir("shared") ELSE Dir("root")
    ELSE IF node.at = "root"
         THEN IF c = <<"s">> THEN Dir("shared")
              ELSE IF c = <<"p">> THEN File("root", c, OutsideData)
              ELSE None
    ELSE IF node.at = "shared"
         THEN IF c \notin DOMAIN sh THEN None
              ELSE IF sh[c].kind = "file" THEN File("shared", c, sh[c].data)
              ELSE IF sh[c].kind = "dir" THEN Dir("sub")
              ELSE Special("shared")
    ELSE IF c = <<"x">> THEN File("sub", c, SubdirData)
    ELSE None

RECURSIVE WalkFrom(_, _, _)
WalkFrom(node, cs, sh) ==
    IF cs = <<>> THEN node
    ELSE Once(Step(node, Head(cs), sh),
              LAMBDA next : Once(Tail(cs), LAMBDA rest : WalkFrom(next, rest, sh)))

\* the node an absolute path names
Walk(path, sh) == Once(Split(path), LAMBDA cs : WalkFrom(Dir("root"), cs, sh))

\* os.path.exists, os.path.isfile
exists(path, sh) == Once(path, LAMBDA p : Walk(p, sh).kind # "none")
isfile(path, sh) == Once(path, LAMBDA p : Walk(p, sh).kind = "file")

\* werkzeug's safe_join of a directory and one name without separators
\* (the only names download passes): None for "..", "../..." and absolute names
safe_join(directory, name) ==
    IF name = <<".", ".">>
       \/ (Len(name) >= 3 /\ SubSeq(name, 1, 3) = <<".", ".", "/">>)
       \/ (name # <<>> /\ Head(name) = "/")
    THEN <<>>
    ELSE join(directory, name)

NotFound == [status |-> 404]

\* flask.send_from_directory(directory, name, as_attachment=True)
send_from_directory(directory, name, sh) ==
    LET path == safe_join(directory, name)
    IN  IF path = <<>> \/ ~isfile(path, sh) THEN NotFound
        ELSE [status |-> 200, attachment |-> name, at |-> Walk(path, sh).at,
              data |-> Walk(path, sh).data]

\* a handler that opens the joined path without either check
download_unchecked(filename, sh) ==
    LET path == join(SHARED_DIR, filename)
    IN  IF ~isfile(path, sh) THEN NotFound
        ELSE [status |-> 200, attachment |-> basename(path), at |-> Walk(path, sh).at,
              data |-> Walk(path, sh).data]

\* a handler that sanitizes the requested name the way upload does
download_secure_filename(filename, sh) ==
    LET safe_name == secure_filename(filename)
        file_path == join(SHARED_DIR, safe_name)
    IN  IF ~isfile(file_path, sh) THEN NotFound
        ELSE send_from_directory(SHARED_DIR, safe_name, sh)

\* GET /download/<path:filename>
download(filename, sh) ==
    LET safe_name == basename(filename)
        file_path == join(SHARED_DIR, safe_name)
    IN  IF ~isfile(file_path, sh) THEN NotFound
        ELSE send_from_directory(SHARED_DIR, safe_name, sh)

\* f.save / file.write of one chunk at the writer's own offset
WriteAt(data, off, c) ==
    IF off < Len(data) THEN [data EXCEPT ![off + 1] = c]
    ELSE data \o [k \in 1..(off - Len(data)) |-> 0] \o <<c>>

----------------------------------------------------------------------------
(* GET /api/list                                                            *)

\* st_mtime is a float number of seconds: the clock ticks twice a second
TicksPerSecond == 2

\* int(st.st_mtime)
int(t) == t \div TicksPerSecond

\* os.listdir: the names of the entries, in an order the file system picks
RECURSIVE listdir(_)
listdir(names) ==
    IF names = {} THEN {<<>>}
    ELSE UNION {{<<n>> \o o : o \in listdir(names \ {n})} : n \in names}

\* lines 110-118: one item per name that os.path.isfile accepts
RECURSIVE Items(_, _, _)
Items(order, sh, mt) ==
    IF order = <<>> THEN <<>>
    ELSE LET name == Head(order)
             rest == Items(Tail(order), sh, mt)
         IN  IF isfile(join(SHARED_DIR, name), sh)
             THEN <<[name |-> name, size |-> Len(sh[name].data), mtime |-> int(mt[name])]>>
                      \o rest
             ELSE rest

\* a sort that leaves out reverse=True
RECURSIVE InsertAscending(_, _)
InsertAscending(x, sorted) ==
    IF sorted = <<>> THEN <<x>>
    ELSE IF Head(sorted).mtime <= x.mtime
         THEN <<Head(sorted)>> \o InsertAscending(x, Tail(sorted))
         ELSE <<x>> \o sorted

\* list.sort is stable, with reverse=True too: an item goes behind every item
\* whose key is not smaller
RECURSIVE InsertDescending(_, _)
InsertDescending(x, sorted) ==
    IF sorted = <<>> THEN <<x>>
    ELSE IF Head(sorted).mtime >= x.mtime
         THEN <<Head(sorted)>> \o InsertDescending(x, Tail(sorted))
         ELSE <<x>> \o sorted

\* line 119: items.sort(key=lambda x: x["mtime"], reverse=True)
RECURSIVE SortByMtime(_)
SortByMtime(items) ==
    IF items = <<>> THEN <<>>
    ELSE InsertDescending(items[Len(items)], SortByMtime(SubSeq(items, 1, Len(items) - 1)))

\* lines 108-120, order what os.listdir returned
list_shared_files(order, sh, mt) == SortByMtime(Items(order, sh, mt))

----------------------------------------------------------------------------
(* Requests *)

rt == <<"r", ".", "t">>
rt1 == <<"r", " ", "(", "1", ")", ".", "t">>
rt2 == <<"r", " ", "(", "2", ")", ".", "t">>
rt3 == <<"r", " ", "(", "3", ")", ".", "t">>

\* client-supplied upload filenames
RawNames ==
    { rt,
      <<".", ".", "/", "r", ".", "t">>,
      <<"d">>,
      <<".", ".">> }

\* uploaded contents, as sequences of chunks: one chunk from the first request
\* thread's client, two from the second's
Contents == << <<1>>, <<2, 2>> >>

ContentOf(w) == Contents[((w - 1) % 2) + 1]

\* requested download names
DownloadNames ==
    { rt, rt1,
      <<".", ".", "/", "p">>,
      <<"/", "p">>,
      <<".", ".", "/", "r", ".", "t">>,
      <<".", ".", "/", ".", ".", "/", "p">>,
      <<"d">>,
      <<"d", "/", "x">>,
      <<"d", "/", ".", ".">>,
      <<".", ".">>,
      <<"r", ".", "t", "/">>,
      <<>> }

FileEntry(data) == [kind |-> "file", data |-> data]
DirEntry == [kind |-> "dir", data |-> <<>>]
FifoEntry == [kind |-> "fifo", data |-> <<>>]

\* contents of SHARED_DIR when the server starts
InitDirs ==
    { (<<"d">> :> DirEntry),
      (<<"d">> :> DirEntry) @@ (rt :> FileEntry(<<7>>)),
      (<<"d">> :> DirEntry) @@ (rt :> FileEntry(<<7>>)) @@ (rt2 :> FileEntry(<<7>>)) }

\* POST /upload requests as the validations see them: without a file field
\* (no filename then), or with one and its client-supplied filename
Requests ==
    {[hasFile |-> FALSE, raw |-> <<>>]}
        \cup {[hasFile |-> TRUE, raw |-> raw] : raw \in RawNames \cup {<<>>}}

\* the clock when the server starts, and st_mtime of what is there by then
StartTime == 300 * TicksPerSecond
OldTime == 100 * TicksPerSecond
OldTimes == {OldTime, OldTime + 1, 200 * TicksPerSecond}
InitMtime(sh) == [n \in DOMAIN sh |-> OldTime]

at == <<"a", ".", "t">>
bt == <<"b", ".", "t">>

\* directories that are listed: a special file alone, or a subdirectory and
\* two regular files
ListDirs ==
    { (<<"f">> :> FifoEntry),
      (<<"d">> :> DirEntry) @@ (at :> FileEntry(<<7>>)) @@ (bt :> FileEntry(<<7, 7>>)) }

NoListing == [pc |-> "none"]

Idle == [pc |-> "idle"]

Active(w) == up[w].pc \notin {"idle", "rejected"}

----------------------------------------------------------------------------
(* POST /upload, one thread per request (threaded=True)                     *)

\* the file-system entry a path directly under SHARED_DIR names
Entry(path) == basename(path)

\* a response of upload
Rejected(error) == [ok |-> FALSE, code |-> 400, error |-> error]
Saved(u) ==
    [ok |-> TRUE, code |-> 200, savedAs |-> u.filename, name |-> u.name,
     num |-> u.num, content |-> u.content, overlapped |-> u.overlapped]

\* the other request threads are marked once they run beside a new upload
MarkOverlap(w) ==
    [v \in Workers |->
        IF v # w /\ Active(v) THEN [up[v] EXCEPT !.overlapped = TRUE] ELSE up[v]]

\* a handler that sanitizes before it looks for an empty filename
Validate_SanitizeFirst(hasFile, raw) ==
    IF ~hasFile THEN "No file field"
    ELSE IF secure_filename(raw) = <<>> THEN "Invalid filename"
    ELSE IF raw = <<>> THEN "Empty filename"
    ELSE "valid"

\* lines 150-158: the three validations, in the order of the code
Validate(hasFile, raw) ==
    IF ~hasFile THEN "No file field"
    ELSE IF raw = <<>> THEN "Empty filename"
    ELSE IF secure_filename(raw) = <<>> THEN "Invalid filename"
    ELSE "valid"

\* lines 150-158: a request that fails a validation is answered at once
UploadReject(w) ==
    /\ up[w].pc = "idle"
    /\ \E req \in Requests :
         /\ Validate(req.hasFile, req.raw) # "valid"
         /\ up' = [up EXCEPT ![w] =
                      [pc |-> "rejected", request |-> req,
                       response |-> Rejected(Validate(req.hasFile, req.raw)),
                       snap |-> shared]]
    /\ UNCHANGED <<shared, mtime, hist, dl, nreq, lvars, svars>>

\* the 400 response has been sent
RejectReturn(w) ==
    /\ up[w].pc = "rejected"
    /\ up' = [up EXCEPT ![w] = Idle]
    /\ UNCHANGED <<shared, mtime, hist, dl, nreq, lvars, svars>>

\* lines 150-160: a valid request; filename and out_path are set
UploadStart(w) ==
    /\ up[w].pc = "idle"
    /\ nreq < MaxUploads
    /\ \E raw \in RawNames :
         LET filename == secure_filename(raw)
             content == ContentOf(w)
         IN  /\ Validate(TRUE, raw) = "valid"
             /\ up' = [MarkOverlap(w) EXCEPT ![w] =
                          [pc |-> "exists", name |-> filename, filename |-> filename,
                           out_path |-> join(SHARED_DIR, filename), i |-> 0, num |-> 0,
                           content |-> content, off |-> 0, snap |-> shared,
                           overlapped |-> \E v \in Workers : v # w /\ Active(v)]]
    /\ nreq' = nreq + 1
    /\ UNCHANGED <<shared, mtime, hist, dl, lvars, svars>>

\* a handler that never looks whether out_path is taken
UploadExists_NoCheck(w) ==
    /\ up[w].pc = "exists"
    /\ up' = [up EXCEPT ![w].pc = "open"]
    /\ UNCHANGED <<shared, mtime, hist, dl, nreq, lvars, svars>>

\* line 162-164: if os.path.exists(out_path): ... i = 1
UploadExists(w) ==
    /\ up[w].pc = "exists"
    /\ up' = [up EXCEPT ![w] =
                IF exists(up[w].out_path, shared)
                THEN [up[w] EXCEPT !.pc = "loop", !.i = 1]
                ELSE [up[w] EXCEPT !.pc = "open"]]
    /\ UNCHANGED <<shared, mtime, hist, dl, nreq, lvars, svars>>

\* line 166: candidate = f"{base} ({i}){ext}"
Candidate(filename, i) ==
    LET base == splitext(filename)[1]
        ext == splitext(filename)[2]
    IN  base \o <<" ", "(">> \o str(i) \o <<")">> \o ext

\* a loop whose first candidate is "base (2)ext"
LoopTurn_OffByOne(u, sh) ==
    LET candidate == Candidate(u.name, u.i + 1)
        out_path == join(SHARED_DIR, candidate)
    IN  IF ~exists(out_path, sh)
        THEN [u EXCEPT !.out_path = out_path, !.filename = candidate,
                       !.num = u.i + 1, !.pc = "open"]
        ELSE [u EXCEPT !.out_path = out_path, !.i = u.i + 1]

\* a loop that tries the same candidate again
LoopTurn_NoIncrement(u, sh) ==
    LET candidate == Candidate(u.name, u.i)
        out_path == join(SHARED_DIR, candidate)
    IN  IF ~exists(out_path, sh)
        THEN [u EXCEPT !.out_path = out_path, !.filename = candidate,
                       !.num = u.i, !.pc = "open"]
        ELSE [u EXCEPT !.out_path = out_path]

\* lines 165-171: one turn of the while loop
LoopTurn(u, sh) ==
    LET candidate == Candidate(u.name, u.i)
        out_path == join(SHARED_DIR, candidate)
    IN  IF ~exists(out_path, sh)
        THEN [u EXCEPT !.out_path = out_path, !.filename = candidate,
                       !.num = u.i, !.pc = "open"]
        ELSE [u EXCEPT !.out_path = out_path, !.i = u.i + 1]

UploadLoop(w) ==
    /\ up[w].pc = "loop"
    /\ up' = [up EXCEPT ![w] = LoopTurn(up[w], shared)]
    /\ UNCHANGED <<shared, mtime, hist, dl, nreq, lvars, svars>>

\* a save that creates the file under the name first asked for
UploadOpen_FirstName(w) ==
    /\ up[w].pc = "open"
    /\ shared' = (up[w].name :> FileEntry(<<>>)) @@ shared
    /\ mtime' = (up[w].name :> now) @@ mtime
    /\ up' = [up EXCEPT ![w].pc = IF up[w].content = <<>> THEN "return" ELSE "write",
                        ![w].off = 0, ![w].out_path = join(SHARED_DIR, up[w].name),
                        ![w].filename = up[w].name]
    /\ UNCHANGED <<hist, dl, nreq, lvars, svars>>

\* line 173, f.save: open(out_path, "wb") creates the file or truncates it
UploadOpen(w) ==
    /\ up[w].pc = "open"
    /\ shared' = (Entry(up[w].out_path) :> FileEntry(<<>>)) @@ shared
    /\ mtime' = (Entry(up[w].out_path) :> now) @@ mtime
    /\ up' = [up EXCEPT ![w].pc = IF up[w].content = <<>> THEN "return" ELSE "write",
                        ![w].off = 0]
    /\ UNCHANGED <<hist, dl, nreq, lvars, svars>>

\* line 173, f.save: copyfileobj writes the next chunk; close after the last
UploadWrite(w) ==
    /\ up[w].pc = "write"
    /\ LET e == Entry(up[w].out_path)
           off == up[w].off
       IN  /\ shared' = [shared EXCEPT
                            ![e].data = WriteAt(shared[e].data, off, up[w].content[off + 1])]
           /\ mtime' = [mtime EXCEPT ![e] = now]
           /\ up' = [up EXCEPT
                        ![w].off = off + 1,
                        ![w].pc = IF off + 1 = Len(up[w].content) THEN "return" ELSE "write"]
    /\ UNCHANGED <<hist, dl, nreq, lvars, svars>>

\* line 174: return jsonify({"ok": True, "savedAs": filename})
UploadReturn(w) ==
    /\ up[w].pc = "return"
    /\ hist' = Append(hist, Saved(up[w]))
    /\ up' = [up EXCEPT ![w] = Idle]
    /\ UNCHANGED <<shared, mtime, dl, nreq, lvars, svars>>

\* lines 139-145
Download ==
    /\ \E filename \in DownloadNames :
         dl' = [request |-> filename, response |-> download(filename, shared)]
    /\ UNCHANGED <<shared, mtime, up, hist, nreq, lvars, svars>>

----------------------------------------------------------------------------
(* Startup: run(), the portproxy provisioner and the broadcaster thread.    *)
(* An address is a string of one word; " " stands for any whitespace.       *)

WS == " "

DEFAULT_PORT == 54837

\* values of QSHARE_PORT
Ports == {DEFAULT_PORT, 8080}

\* values of QSHARE_IP; the empty string when the variable is unset
Overrides ==
    { <<>>, <<WS>>, <<WS, "10.0.0.5", WS>>, <<"172.17.0.2">>, <<"bogus">>,
      <<"127.0.0.1">> }

\* what getsockname reports after the UDP connect, or the connect's failure
ProbeResults == {"error", "172.17.0.2", "172.17.0.3"}

\* stdout of the PowerShell Wi-Fi query
WifiOutputs == { <<>>, <<WS>>, <<"192.168.1.7", WS>> }

Environs ==
    [QSHARE_IP : Overrides, QSHARE_PORT : Ports, interop : BOOLEAN]

\* socket.inet_aton: the four bytes of a dotted quad, or the error it raises
inet_aton(a) ==
    CASE a = <<"10.0.0.5">> -> <<10, 0, 0, 5>>
      [] a = <<"192.168.1.7">> -> <<192, 168, 1, 7>>
      [] a = <<"172.17.0.2">> -> <<172, 17, 0, 2>>
      [] a = <<"172.17.0.3">> -> <<172, 17, 0, 3>>
      [] a = <<"127.0.0.1">> -> <<127, 0, 0, 1>>
      [] OTHER -> "error"

\* line 84
del_cmd(listen_ip, listen_port) ==
    [verb |-> "portproxy delete", listenport |-> listen_port, listenaddress |-> listen_ip]

\* a command line whose connectaddress is the listen address
add_cmd_WrongTarget(listen_ip, listen_port, wsl_ip, wsl_port) ==
    [verb |-> "portproxy add", listenport |-> listen_port, listenaddress |-> listen_ip,
     connectport |-> wsl_port, connectaddress |-> listen_ip]

\* line 85
add_cmd(listen_ip, listen_port, wsl_ip, wsl_port) ==
    [verb |-> "portproxy add", listenport |-> listen_port, listenaddress |-> listen_ip,
     connectport |-> wsl_port, connectaddress |-> wsl_ip]

\* a firewall rule for the default port, whatever port is listened on
fw_cmd_DefaultPort(listen_port) ==
    [verb |-> "firewall add", name |-> <<"QShare", listen_port>>, localport |-> DEFAULT_PORT]

\* line 86
fw_cmd(listen_port) ==
    [verb |-> "firewall add", name |-> <<"QShare", listen_port>>, localport |-> listen_port]

\* netsh: the mappings with the command's listen address and port
SameListen(proxy, c) ==
    {m \in proxy : m.listenaddress = c.listenaddress /\ m.listenport = c.listenport}

\* netsh interface portproxy delete v4tov4: fails when there is no such mapping
CanDelete(h, c) == SameListen(h.proxy, c) # {}
HostDelete(h, c) == [h EXCEPT !.proxy = @ \ SameListen(@, c)]

\* netsh interface portproxy add v4tov4: one mapping per listen address and
\* port, the new one replacing an old one; fails on a malformed address
CanAdd(h, c) == inet_aton(c.listenaddress) # "error" /\ inet_aton(c.connectaddress) # "error"
HostAdd(h, c) ==
    [h EXCEPT !.proxy = (@ \ SameListen(@, c)) \cup
        {[listenaddress |-> c.listenaddress, listenport |-> c.listenport,
          connectaddress |-> c.connectaddress, connectport |-> c.connectport]}]

\* netsh advfirewall firewall add rule: appends a rule, whatever rules of that
\* name there are
HostFirewall(h, c) == [h EXCEPT !.fw = Append(@, [name |-> c.name, localport |-> c.localport])]

NoCall == [ok |-> FALSE, args |-> <<>>, host |-> [proxy |-> {}, fw |-> <<>>]]

NoQuery == [code |-> -1, out |-> <<>>]

FreshLoc ==
    [port |-> 0, advertise_ip |-> <<>>, wsl |-> "unknown", wsl_ip |-> <<>>,
     probe |-> "none", query |-> NoQuery]
FreshPp == [calls |-> <<>>, cmds |-> <<>>, report |-> "none", printed |-> <<>>, prior |-> NoCall]
FreshBcast == [pc |-> "none", advertise_ip |-> <<>>, port |-> 0]
FreshZc == [handle |-> "none", registered |-> FALSE, address |-> <<>>, port |-> 0]
FreshHttp == [state |-> "off", port |-> 0]

Running == proc = "running"

\* the process ends: the interpreter exits without joining the daemon thread,
\* which is stopped where it stands; nothing of lines 204-211 runs
Halt(how) ==
    /\ proc' = how
    /\ bcast' = [bcast EXCEPT !.pc = IF @ \in {"none", "dead"} THEN @ ELSE "killed"]
    /\ http' = [http EXCEPT !.state = "off"]
    /\ UNCHANGED <<host, environ, runs, pc, pp, zc, prev, fvars>>

Exit(how) == Halt(how) /\ UNCHANGED loc

\* lines 215-218: port and the stripped QSHARE_IP
ReadEnv ==
    /\ Running /\ pc = "start"
    /\ loc' = [loc EXCEPT !.port = environ.QSHARE_PORT,
                          !.advertise_ip = strip(environ.QSHARE_IP, {WS})]
    /\ pc' = "is_wsl"
    /\ UNCHANGED <<host, environ, runs, proc, pp, bcast, zc, http, prev, fvars>>

\* line 220: is_wsl()
IsWsl ==
    /\ Running /\ pc = "is_wsl"
    /\ \E r \in BOOLEAN :
         /\ loc' = [loc EXCEPT !.wsl = IF r THEN "yes" ELSE "no"]
         /\ pc' = IF r THEN "get_wsl_ip" ELSE "native"
    /\ UNCHANGED <<host, environ, runs, proc, pp, bcast, zc, http, prev, fvars>>

\* line 221: get_wsl_ip(), whose OSError is not caught
GetWslIp ==
    /\ Running /\ pc = "get_wsl_ip"
    /\ \E r \in ProbeResults \ {"error"} :
         loc' = [loc EXCEPT !.wsl_ip = <<r>>, !.probe = "ok"]
    /\ pc' = "pick"
    /\ UNCHANGED <<host, environ, runs, proc, pp, bcast, zc, http, prev, fvars>>

GetWslIpFails ==
    /\ Running /\ pc = "get_wsl_ip"
    /\ "error" \in ProbeResults
    /\ loc' = [loc EXCEPT !.probe = "error"]
    /\ Halt("failed")

\* a host query that trusts powershell's output whatever its exit code
get_windows_wifi_ip_IgnoreCode(code, out) == strip(out, {WS})

\* lines 59-62: the Wi-Fi address, or None (the empty string here)
get_windows_wifi_ip(code, out) ==
    IF code = 0 /\ strip(out, {WS}) # <<>> THEN strip(strip(out, {WS}), {WS}) ELSE <<>>

\* a startup that takes the detected address whatever QSHARE_IP says
PickAdvertiseIp_IgnoreOverride(advertise_ip, win_ip, wsl_ip) ==
    IF win_ip # <<>> THEN win_ip ELSE wsl_ip

\* lines 223-226: advertise_ip in the nested environment
PickAdvertiseIp(advertise_ip, win_ip, wsl_ip) ==
    IF advertise_ip = <<>>
    THEN IF win_ip # <<>> THEN win_ip ELSE wsl_ip
    ELSE advertise_ip

\* lines 223: the override is set, the host is not asked
KeepOverride ==
    /\ Running /\ pc = "pick"
    /\ loc.advertise_ip # <<>>
    /\ loc' = [loc EXCEPT !.advertise_ip = PickAdvertiseIp(@, <<>>, loc.wsl_ip)]
    /\ pc' = "decide"
    /\ UNCHANGED <<host, environ, runs, proc, pp, bcast, zc, http, prev, fvars>>

\* lines 223-226: no override, powershell.exe answers
QueryHost ==
    /\ Running /\ pc = "pick"
    /\ loc.advertise_ip = <<>>
    /\ environ.interop
    /\ \E code \in {0, 1}, out \in WifiOutputs :
         loc' = [loc EXCEPT !.advertise_ip =
                    PickAdvertiseIp(@, get_windows_wifi_ip(code, out), loc.wsl_ip),
                               !.query = [code |-> code, out |-> strip(out, {WS})]]
    /\ pc' = "decide"
    /\ UNCHANGED <<host, environ, runs, proc, pp, bcast, zc, http, prev, fvars>>

\* line 35: subprocess.run cannot start powershell.exe and raises
QueryHostCannotRun ==
    /\ Running /\ pc = "pick"
    /\ loc.advertise_ip = <<>>
    /\ ~environ.interop
    /\ Exit("failed")

\* a startup that provisions whenever it is nested
NeedsForward_Always(advertise_ip, wsl_ip) == TRUE

\* line 230
NeedsForward(advertise_ip, wsl_ip) == advertise_ip # wsl_ip

\* lines 230-231: ensure_windows_portproxy(advertise_ip, port, wsl_ip, port)
Decide ==
    /\ Running /\ pc = "decide"
    /\ IF NeedsForward(loc.advertise_ip, loc.wsl_ip)
       THEN /\ pp' = [pp EXCEPT
                        !.calls = Append(@, [listen_ip |-> loc.advertise_ip,
                                             listen_port |-> loc.port,
                                             wsl_ip |-> loc.wsl_ip,
                                             wsl_port |-> loc.port]),
                        !.prior = prev]
            /\ pc' = "pp_del"
       ELSE /\ pp' = pp
            /\ pc' = "thread"
    /\ UNCHANGED <<host, environ, runs, proc, loc, bcast, zc, http, prev, fvars>>

\* the arguments of the provisioner's invocation
Args == pp.calls[Len(pp.calls)]

\* lines 89-91: one subprocess.run; ok is whether netsh carries the command out
RunCmd(c, can, effect) ==
    /\ Running
    /\ environ.interop
    /\ \E ok \in BOOLEAN :
         LET rc == IF ok /\ can THEN 0 ELSE 1
         IN  /\ pp' = [pp EXCEPT !.cmds = Append(@, [cmd |-> c, returncode |-> rc])]
             /\ host' = IF rc = 0 THEN effect ELSE host
    /\ UNCHANGED <<environ, runs, proc, loc, bcast, zc, http, prev, fvars>>

\* line 89
PpDelete ==
    /\ pc = "pp_del"
    /\ LET c == del_cmd(Args.listen_ip, Args.listen_port)
       IN  RunCmd(c, CanDelete(host, c), HostDelete(host, c))
    /\ pc' = "pp_add"

\* line 90
PpAdd ==
    /\ pc = "pp_add"
    /\ LET c == add_cmd(Args.listen_ip, Args.listen_port, Args.wsl_ip, Args.wsl_port)
       IN  RunCmd(c, CanAdd(host, c), HostAdd(host, c))
    /\ pc' = "pp_fw"

\* line 91
PpFirewall ==
    /\ pc = "pp_fw"
    /\ LET c == fw_cmd(Args.listen_port)
       IN  RunCmd(c, TRUE, HostFirewall(host, c))
    /\ pc' = "pp_report"

\* line 89: subprocess.run cannot start powershell.exe and raises
PpCannotRun ==
    /\ Running /\ pc = "pp_del"
    /\ ~environ.interop
    /\ Exit("failed")

\* a report that looks at the portproxy command alone
ProvisionFailed_AddOnly(add_returncode, fw_returncode) == add_returncode # 0

\* line 93
ProvisionFailed(add_returncode, fw_returncode) == add_returncode # 0 \/ fw_returncode # 0

\* lines 93-105: the manual commands, or "portproxy OK"
PpReport ==
    /\ Running /\ pc = "pp_report"
    /\ LET failed == ProvisionFailed(pp.cmds[2].returncode, pp.cmds[3].returncode)
       IN  /\ pp' = [pp EXCEPT
                       !.report = IF failed THEN "failed" ELSE "ok",
                       !.printed = IF failed
                                   THEN <<del_cmd(Args.listen_ip, Args.listen_port),
                                          add_cmd(Args.listen_ip, Args.listen_port,
                                                  Args.wsl_ip, Args.wsl_port),
                                          fw_cmd(Args.listen_port)>>
                                   ELSE <<>>]
           /\ prev' = [ok |-> ~failed, args |-> Args, host |-> host]
    /\ pc' = "thread"
    /\ UNCHANGED <<host, environ, runs, proc, loc, bcast, zc, http, fvars>>

\* lines 234-235, override set
NativeKeepOverride ==
    /\ Running /\ pc = "native"
    /\ loc.advertise_ip # <<>>
    /\ pc' = "thread"
    /\ UNCHANGED <<host, environ, runs, proc, loc, pp, bcast, zc, http, prev, fvars>>

\* lines 234-235: get_native_ip(), whose OSError is not caught
NativeProbe ==
    /\ Running /\ pc = "native"
    /\ loc.advertise_ip = <<>>
    /\ \E r \in ProbeResults \ {"error"} :
         loc' = [loc EXCEPT !.advertise_ip = <<r>>, !.probe = "ok"]
    /\ pc' = "thread"
    /\ UNCHANGED <<host, environ, runs, proc, pp, bcast, zc, http, prev, fvars>>

NativeProbeFails ==
    /\ Running /\ pc = "native"
    /\ loc.advertise_ip = <<>>
    /\ loc' = [loc EXCEPT !.probe = "error"]
    /\ Halt("failed")

\* lines 237-238: the daemon thread is started
StartThread ==
    /\ Running /\ pc = "thread"
    /\ bcast' = [pc |-> "started", advertise_ip |-> loc.advertise_ip, port |-> loc.port]
    /\ pc' = "app_run"
    /\ UNCHANGED <<host, environ, runs, proc, loc, pp, zc, http, prev, fvars>>

\* line 240: the server binds 0.0.0.0:port and serves
\* a server that listens on the default port, whatever QSHARE_PORT says
AppRun_DefaultPort ==
    /\ Running /\ pc = "app_run"
    /\ http' = [state |-> "serving", port |-> DEFAULT_PORT]
    /\ pc' = "serving"
    /\ UNCHANGED <<host, environ, runs, proc, loc, pp, bcast, zc, prev, fvars>>

\* line 240: app.run binds 0.0.0.0:port and serves
AppRun ==
    /\ Running /\ pc = "app_run"
    /\ http' = [state |-> "serving", port |-> loc.port]
    /\ pc' = "serving"
    /\ UNCHANGED <<host, environ, runs, proc, loc, pp, bcast, zc, prev, fvars>>

\* line 240: the port cannot be bound, or the serving loop raises
AppRunFails ==
    /\ Running /\ pc \in {"app_run", "serving"}
    /\ Exit("failed")

\* SIGINT: KeyboardInterrupt is raised in the main thread, wherever it is
Interrupt ==
    /\ Running
    /\ Exit("interrupted")

\* lines 180-192: Zeroconf() and ServiceInfo(addresses=[inet_aton(...)])
BcastCreate ==
    /\ Running /\ bcast.pc = "started"
    /\ zc' = [zc EXCEPT !.handle = "open"]
    /\ bcast' = [bcast EXCEPT !.pc = IF inet_aton(bcast.advertise_ip) = "error"
                                      THEN "dead" ELSE "register"]
    /\ UNCHANGED <<host, environ, runs, proc, pc, loc, pp, http, prev, fvars>>

\* line 194: register_service announces the record
BcastRegister ==
    /\ Running /\ bcast.pc = "register"
    /\ zc' = [zc EXCEPT !.registered = TRUE,
                        !.address = inet_aton(bcast.advertise_ip),
                        !.port = bcast.port]
    /\ bcast' = [bcast EXCEPT !.pc = "loop"]
    /\ UNCHANGED <<host, environ, runs, proc, pc, loc, pp, http, prev, fvars>>

\* line 194: register_service raises; the thread ends, the handle stays open
BcastRegisterFails ==
    /\ Running /\ bcast.pc = "register"
    /\ bcast' = [bcast EXCEPT !.pc = "dead"]
    /\ UNCHANGED <<host, environ, runs, proc, pc, loc, pp, zc, http, prev, fvars>>

\* lines 206-211: what the finally clause would do. No step of the thread
\* performs it: time.sleep raises nothing, and SIGINT goes to the main thread.
BcastCleanup == [zc EXCEPT !.registered = FALSE, !.handle = "closed"]

\* the program is started again on the same host, QSHARE_PORT as before and
\* powershell.exe there or not as before; QSHARE_IP is set anew
Restart ==
    /\ ~Running
    /\ runs < MaxRuns
    /\ runs' = runs + 1
    /\ environ' \in {e \in Environs : /\ e.QSHARE_PORT = environ.QSHARE_PORT
                                      /\ e.interop = environ.interop}
    /\ proc' = "running"
    /\ pc' = "start"
    /\ loc' = FreshLoc
    /\ pp' = FreshPp
    /\ bcast' = FreshBcast
    /\ zc' = FreshZc
    /\ http' = FreshHttp
    /\ UNCHANGED <<host, prev, fvars>>

\* lines 130-136: the listing is computed from the directory as it is
List ==
    /\ ls.pc = "none"
    /\ \E order \in listdir(DOMAIN shared) :
         ls' = [pc |-> "sent", ok |-> TRUE, files |-> list_shared_files(order, shared, mtime)]
    /\ UNCHANGED <<shared, mtime, up, hist, dl, nreq, now, svars>>

\* the response of /api/list has been sent
ListReturn ==
    /\ ls.pc = "sent"
    /\ ls' = NoListing
    /\ UNCHANGED <<shared, mtime, up, hist, dl, nreq, now, svars>>

\* time passes
Tick ==
    /\ ls.pc = "none"
    /\ now < StartTime + MaxTicks
    /\ now' = now + 1
    /\ UNCHANGED <<shared, mtime, up, hist, dl, nreq, ls, svars>>

\* the next step of request thread w's upload
UploadStep(w) ==
    \/ UploadStart(w)
    \/ UploadExists(w)
    \/ UploadLoop(w)
    \/ UploadOpen(w)
    \/ UploadWrite(w)
    \/ UploadReturn(w)

\* uploads one after another, while no listing is being sent and the
\* directory has room
SerialUpload ==
    /\ ls.pc = "none"
    /\ up[1].pc = "idle" => Cardinality(DOMAIN shared) < MaxEntries
    /\ UploadStep(1)

\* the transfer service is idle while run() is followed
FilesAtRest ==
    /\ shared = (<<"d">> :> DirEntry)
    /\ mtime = InitMtime(shared)
    /\ now = StartTime
    /\ ls = NoListing
    /\ up = [w \in Workers |-> Idle]
    /\ hist = <<>>
    /\ dl = [request |-> <<>>, response |-> NotFound]
    /\ nreq = 0

InitStartup ==
    /\ FilesAtRest
    /\ host = [proxy |-> {}, fw |-> <<>>]
    /\ environ \in Environs
    /\ runs = 1
    /\ proc = "running"
    /\ pc = "start"
    /\ loc = FreshLoc
    /\ pp = FreshPp
    /\ bcast = FreshBcast
    /\ zc = FreshZc
    /\ http = FreshHttp
    /\ prev = NoCall

NextStartup ==
    \/ ReadEnv
    \/ IsWsl
    \/ GetWslIp
    \/ GetWslIpFails
    \/ KeepOverride
    \/ QueryHost
    \/ QueryHostCannotRun
    \/ Decide
    \/ PpDelete
    \/ PpAdd
    \/ PpFirewall
    \/ PpCannotRun
    \/ PpReport
    \/ NativeKeepOverride
    \/ NativeProbe
    \/ NativeProbeFails
    \/ StartThread
    \/ AppRun
    \/ AppRunFails
    \/ Interrupt
    \/ BcastCreate
    \/ BcastRegister
    \/ BcastRegisterFails
    \/ Restart

SpecStartup == InitStartup /\ [][NextStartup]_vars

\* the process serves on the default port, natively, while requests are followed
Serving ==
    /\ host = [proxy |-> {}, fw |-> <<>>]
    /\ environ = [QSHARE_IP |-> <<>>, QSHARE_PORT |-> DEFAULT_PORT, interop |-> FALSE]
    /\ runs = 1
    /\ proc = "running"
    /\ pc = "serving"
    /\ loc = [port |-> DEFAULT_PORT, advertise_ip |-> <<"172.17.0.2">>, wsl |-> "no",
              wsl_ip |-> <<>>, probe |-> "ok", query |-> NoQuery]
    /\ pp = FreshPp
    /\ bcast = [pc |-> "loop", advertise_ip |-> <<"172.17.0.2">>, port |-> DEFAULT_PORT]
    /\ zc = [handle |-> "open", registered |-> TRUE, address |-> <<172, 17, 0, 2>>,
             port |-> DEFAULT_PORT]
    /\ http = [state |-> "serving", port |-> DEFAULT_PORT]
    /\ prev = NoCall

InitFiles ==
    /\ shared \in InitDirs
    /\ mtime = InitMtime(shared)
    /\ now = StartTime
    /\ ls = NoListing
    /\ up = [w \in Workers |-> Idle]
    /\ hist = <<>>
    /\ dl = [request |-> <<>>, response |-> NotFound]
    /\ nreq = 0
    /\ Serving

NextFiles ==
    \/ \E w \in Workers : UploadReject(w)
    \/ \E w \in Workers : RejectReturn(w)
    \/ \E w \in Workers : UploadStart(w)
    \/ \E w \in Workers : UploadExists(w)
    \/ \E w \in Workers : UploadLoop(w)
    \/ \E w \in Workers : UploadOpen(w)
    \/ \E w \in Workers : UploadWrite(w)
    \/ \E w \in Workers : UploadReturn(w)

SpecFiles == InitFiles /\ [][NextFiles]_vars

\* download applied to every directory the uploads above can produce
DownloadDirs ==
    { d @@ u : d \in InitDirs,
               u \in { <<>>,
                       (rt1 :> FileEntry(<<1>>)),
                       (rt1 :> FileEntry(<<2, 2>>)) @@ (rt3 :> FileEntry(<<1>>)),
                       (<<"d", " ", "(", "1", ")">> :> FileEntry(<<1, 2>>)) } }

InitDownload ==
    /\ shared \in DownloadDirs
    /\ mtime = InitMtime(shared)
    /\ now = StartTime
    /\ ls = NoListing
    /\ up = [w \in Workers |-> Idle]
    /\ hist = <<>>
    /\ dl = [request |-> <<>>, response |-> NotFound]
    /\ nreq = 0
    /\ Serving

NextDownload == Download

SpecDownload == InitDownload /\ [][NextDownload]_vars

\* list_shared_files applied to directories with old files of every age, and
\* to what uploads make of them
InitList ==
    /\ shared \in ListDirs
    /\ mtime \in {mt \in [DOMAIN shared -> OldTimes] :
                    \A n \in DOMAIN shared : shared[n].kind # "file" => mt[n] = OldTime}
    /\ now = StartTime
    /\ ls = NoListing
    /\ up = [w \in Workers |-> Idle]
    /\ hist = <<>>
    /\ dl = [request |-> <<>>, response |-> NotFound]
    /\ nreq = 0
    /\ Serving

NextList ==
    \/ List
    \/ ListReturn
    \/ Tick
    \/ SerialUpload

SpecList == InitList /\ [][NextList]_vars

\* concurrent uploads into a directory that holds r.t, every request valid
InitRoundTrip ==
    /\ shared = (<<"d">> :> DirEntry) @@ (rt :> FileEntry(<<7>>))
    /\ mtime = InitMtime(shared)
    /\ now = StartTime
    /\ ls = NoListing
    /\ up = [w \in Workers |-> Idle]
    /\ hist = <<>>
    /\ dl = [request |-> <<>>, response |-> NotFound]
    /\ nreq = 0
    /\ Serving

NextRoundTrip == \E w \in Workers : UploadStep(w)

SpecRoundTrip == InitRoundTrip /\ [][NextRoundTrip]_vars

\* the steps of a request thread once its request is accepted
UploadProgress(w) ==
    \/ UploadExists(w)
    \/ UploadLoop(w)
    \/ UploadOpen(w)
    \/ UploadWrite(w)
    \/ UploadReturn(w)

\* the server after one upload of r.t into a directory that held r.t
InitUploaded ==
    /\ shared = (<<"d">> :> DirEntry) @@ (rt :> FileEntry(<<7>>)) @@ (rt1 :> FileEntry(<<1>>))
    /\ mtime = (rt1 :> StartTime) @@ InitMtime(shared)
    /\ now = StartTime
    /\ ls = NoListing
    /\ up = [w \in Workers |-> Idle]
    /\ hist = <<[ok |-> TRUE, code |-> 200, savedAs |-> rt1, name |-> rt, num |-> 1,
                 content |-> <<1>>, overlapped |-> FALSE]>>
    /\ dl = [request |-> <<>>, response |-> NotFound]
    /\ nreq = 1
    /\ Serving

\* threaded=True: every request has a thread of its own, which the scheduler
\* keeps running; no client is obliged to send a request
SpecUploadFair ==
    /\ InitUploaded
    /\ [][NextRoundTrip]_vars
    /\ \A w \in Workers : WF_vars(UploadProgress(w))

----------------------------------------------------------------------------
(* Claims about the transfer service *)

\* base and extension of a sanitized name: split before its last dot, when
\* that dot is not the first character
BaseOf(n) == IF rfind(n, ".") > 1 THEN SubSeq(n, 1, rfind(n, ".") - 1) ELSE n
ExtOf(n) == IF rfind(n, ".") > 1 THEN SubSeq(n, rfind(n, "."), Len(n)) ELSE <<>>
Numbered(n, i) == BaseOf(n) \o <<" ", "(">> \o str(i) \o <<")">> \o ExtOf(n)

\* the name the collision policy prescribes for n in directory d
ExpectedName(n, d) ==
    IF n \notin DOMAIN d THEN n
    ELSE LET Free == {i \in 1..(Cardinality(DOMAIN d) + 1) : Numbered(n, i) \notin DOMAIN d}
         IN  Numbered(n, CHOOSE i \in Free : \A j \in Free : i <= j)

Returning(w) == up[w].pc = "return" /\ ~up[w].overlapped

\* C1: an upload that overlaps no other is saved under its sanitized name n
\* when n is absent and else as "base (i)ext" for the least i >= 1 whose name
\* is absent; with r.t present the uploads of r.t are saved as "r (1).t", then
\* "r (2).t"; the numbers returned for one name are strictly increasing.
C1_CollisionNaming ==
    /\ \A w \in Workers :
         Returning(w) =>
           /\ up[w].filename = ExpectedName(up[w].name, up[w].snap)
           /\ (up[w].name = rt /\ rt \in DOMAIN up[w].snap /\ rt1 \notin DOMAIN up[w].snap)
                => up[w].filename = rt1
           /\ (up[w].name = rt /\ {rt, rt1} \subseteq DOMAIN up[w].snap
                 /\ rt2 \notin DOMAIN up[w].snap)
                => up[w].filename = rt2
    /\ \A j, k \in 1..Len(hist) :
         (j < k /\ ~hist[j].overlapped /\ ~hist[k].overlapped /\ hist[j].name = hist[k].name)
           => /\ hist[j].num < hist[k].num
              /\ hist[k].savedAs = Numbered(hist[k].name, hist[k].num)

C1_Witness ==
    \E j, k \in 1..Len(hist) :
        /\ j < k
        /\ ~hist[j].overlapped /\ ~hist[k].overlapped
        /\ hist[j].name = rt /\ hist[j].savedAs = rt1
        /\ hist[k].name = rt /\ hist[k].savedAs = rt2

\* C2: a successful upload that overlaps no other overwrites nothing: every
\* entry present before it is unchanged, exactly one file is added, its name
\* is the returned savedAs and its content is the whole uploaded content.
C2_NoOverwrite ==
    \A w \in Workers :
        Returning(w) =>
          /\ up[w].filename \notin DOMAIN up[w].snap
          /\ DOMAIN shared = DOMAIN up[w].snap \cup {up[w].filename}
          /\ \A n \in DOMAIN up[w].snap : shared[n] = up[w].snap[n]
          /\ shared[up[w].filename] = FileEntry(up[w].content)

C2_Witness ==
    \E w \in Workers :
        /\ Returning(w)
        /\ up[w].name \in DOMAIN up[w].snap
        /\ Len(up[w].content) = 2

\* C3: the check and the write are not atomic. Two uploads return the same
\* savedAs only when they overlapped, and then the file holds the content of
\* at most one of them (the other is lost) or a mix of both; the witness is
\* the interleaving in which the file is a mix.
C3_SameNameOnlyByRace ==
    \A j, k \in 1..Len(hist) :
        (j < k /\ hist[j].savedAs = hist[k].savedAs) =>
          /\ hist[j].overlapped /\ hist[k].overlapped
          /\ hist[j].name = hist[k].name
          /\ hist[j].savedAs \in DOMAIN shared
          /\ ~(/\ shared[hist[j].savedAs].data = hist[j].content
               /\ shared[hist[k].savedAs].data = hist[k].content)

C3_Witness ==
    \E j, k \in 1..Len(hist) :
        /\ j < k
        /\ hist[j].savedAs = hist[k].savedAs
        /\ hist[j].savedAs = rt1
        /\ shared[rt1].data \notin {hist[j].content, hist[k].content}
        /\ \A w \in Workers : ~Active(w)

\* C4: whatever name is requested, download answers 404 or sends a regular
\* file that lies directly in SHARED_DIR: never a file outside it, never a
\* file of a subdirectory, never a directory.
C4_DownloadConfined ==
    /\ dl.response.status \in {200, 404}
    /\ dl.response.status = 200 =>
         /\ dl.response.at = "shared"
         /\ dl.response.attachment \in DOMAIN shared
         /\ shared[dl.response.attachment].kind = "file"
         /\ dl.response.data = shared[dl.response.attachment].data
         /\ dl.response.data # OutsideData
         /\ dl.response.data # SubdirData

C4_Witness ==
    /\ dl.request = <<".", ".", "/", "r", ".", "t">>
    /\ dl.response.status = 200
    /\ dl.response.attachment = rt

----------------------------------------------------------------------------
(* Claims about startup, provisioning and termination *)

\* C5: once the record is registered, the process never stops without having
\* unregistered it: in no state of a stopped process is the record registered.
C5_UnregisteredWhenStopped == ~Running => ~zc.registered

Decided == pc \in {"pp_del", "pp_add", "pp_fw", "pp_report", "thread", "app_run", "serving"}

\* C7: the provisioner is invoked if and only if the environment is nested and
\* the resolved advertise IP differs from the inner IP, then exactly once and
\* with (advertiseIp, port, innerIp, port); never in the native environment or
\* when the two addresses are equal.
C7_ForwardIffNeeded ==
    /\ Len(pp.calls) <= 1
    /\ pp.calls # <<>> =>
         /\ loc.wsl = "yes"
         /\ loc.advertise_ip # loc.wsl_ip
         /\ pp.calls[1] = [listen_ip |-> loc.advertise_ip, listen_port |-> environ.QSHARE_PORT,
                           wsl_ip |-> loc.wsl_ip, wsl_port |-> environ.QSHARE_PORT]
    /\ (Decided /\ loc.wsl = "yes" /\ loc.advertise_ip # loc.wsl_ip) => Len(pp.calls) = 1

C7_Witness ==
    /\ pc = "serving"
    /\ environ.QSHARE_IP = <<>>
    /\ Len(pp.calls) = 1
    /\ pp.calls[1].listen_ip = <<"192.168.1.7">>

\* C8: the provisioner reports failure, with the three commands it tried,
\* exactly when the add-forward or the add-firewall command fails, and success
\* exactly when both succeed, whatever the delete command returned; each
\* command is run once; after either report startup goes on to the
\* broadcaster thread and the HTTP server.
C8_ReportAndContinue ==
    /\ Len(pp.cmds) <= 3
    /\ pp.report # "none" =>
         /\ Len(pp.cmds) = 3
         /\ pp.cmds[1].cmd.verb = "portproxy delete"
         /\ pp.cmds[2].cmd.verb = "portproxy add"
         /\ pp.cmds[3].cmd.verb = "firewall add"
         /\ pp.report = "failed" <=>
              (pp.cmds[2].returncode # 0 \/ pp.cmds[3].returncode # 0)
         /\ pp.report = "ok" <=>
              (pp.cmds[2].returncode = 0 /\ pp.cmds[3].returncode = 0)
         /\ pp.printed = IF pp.report = "failed"
                         THEN <<pp.cmds[1].cmd, pp.cmds[2].cmd, pp.cmds[3].cmd>>
                         ELSE <<>>
         /\ pc \in {"thread", "app_run", "serving"}
         /\ pc \in {"app_run", "serving"} => bcast.pc # "none"
         /\ (pc = "serving" /\ Running) => http.state = "serving"

C8_Witness ==
    /\ pp.report = "failed"
    /\ pp.cmds[1].returncode = 0
    /\ pp.cmds[2].returncode = 0
    /\ pp.cmds[3].returncode # 0
    /\ http.state = "serving"
    /\ zc.registered

\* C9: the provisioner is idempotent on the host: invoked again with the same
\* arguments, all commands succeeding, it leaves the mappings and the firewall
\* rules as they were after the invocation before.
C9_Idempotent ==
    (/\ pp.report = "ok"
     /\ \A k \in 1..3 : pp.cmds[k].returncode = 0
     /\ pp.prior.ok
     /\ pp.prior.args = Args)
        => host = pp.prior.host

\* C10: after a successful provisioning the host holds exactly one mapping for
\* (listenIp, listenPort), to the current (innerIp, port), whatever an earlier
\* run left for that pair; no listen pair ever has two mappings.
C10_NoStaleMapping ==
    /\ pp.report = "ok" =>
         {m \in host.proxy : m.listenaddress = loc.advertise_ip
                             /\ m.listenport = environ.QSHARE_PORT}
           = {[listenaddress |-> loc.advertise_ip, listenport |-> environ.QSHARE_PORT,
               connectaddress |-> loc.wsl_ip, connectport |-> environ.QSHARE_PORT]}
    /\ \A m1, m2 \in host.proxy :
         (m1.listenaddress = m2.listenaddress /\ m1.listenport = m2.listenport) => m1 = m2

C10_Witness ==
    /\ pp.report = "ok"
    /\ pp.prior.ok
    /\ pp.prior.args.listen_ip = loc.advertise_ip
    /\ pp.prior.args.wsl_ip # loc.wsl_ip
    /\ pp.cmds[1].returncode # 0

\* an IPv4 address, as four octets, that one host can be reached at: not the
\* loopback network, not 0.0.0.0, not multicast or broadcast
Unicast(a) ==
    /\ Len(a) = 4
    /\ a # <<0, 0, 0, 0>>
    /\ a[1] # 127
    /\ a[1] < 224

\* C11: the advertised target is fixed once the broadcaster has it, and a
\* registered service record carries a unicast IPv4 address that is neither
\* loopback nor 0.0.0.0, whatever the override, the environment, the host
\* query's result and the inner IP are.
C11_UnicastTarget ==
    /\ bcast.pc \notin {"none"} => bcast.advertise_ip = loc.advertise_ip
    /\ zc.registered =>
         /\ zc.address = inet_aton(loc.advertise_ip)
         /\ Unicast(zc.address)

\* run() had no override to go by (line 218 left advertise_ip empty)
NoOverride == strip(environ.QSHARE_IP, {WS}) = <<>>

\* the host query ended with a nonzero exit code or printed nothing
QueryFailed == loc.query.code # 0 \/ loc.query.out = <<>>

\* C12: with no override, a failed outbound-socket probe ends startup as a
\* failure with neither the broadcaster nor the HTTP server started; in the
\* nested environment a host query that exits nonzero or prints nothing does
\* not end startup and leaves the inner IP as the advertise IP, and a host
\* query that prints an address makes that address the advertise IP.
C12_ProbeAndQueryFailures ==
    /\ (loc.probe = "error" /\ NoOverride) =>
         /\ proc = "failed"
         /\ bcast.pc = "none" /\ zc.handle = "none" /\ ~zc.registered
         /\ http.state = "off"
    /\ (loc.query # NoQuery /\ NoOverride) =>
         /\ loc.wsl = "yes" /\ pc \notin {"start", "is_wsl", "get_wsl_ip", "pick"}
         /\ QueryFailed =>
              /\ loc.advertise_ip = loc.wsl_ip
              /\ proc = "failed" => pc \in {"app_run", "serving"}
         /\ ~QueryFailed => loc.advertise_ip = loc.query.out

C12_Witness ==
    /\ NoOverride
    /\ loc.query.code # 0 /\ loc.query.out # <<>>
    /\ http.state = "serving"
    /\ zc.registered /\ zc.address = inet_aton(loc.wsl_ip)

\* register_service (line 194) raised in the broadcaster thread
RegistrationFailed == bcast.pc = "dead" /\ inet_aton(bcast.advertise_ip) # "error"

\* C13: a failure to register the service record fails startup: once
\* registration has raised, the HTTP server does not start serving.
C13_NoServiceUnadvertised ==
    [][RegistrationFailed => ~(http.state = "off" /\ http'.state = "serving")]_vars

\* the port a host command opens or forwards from
ListenPortOf(c) == IF c.verb = "firewall add" THEN c.localport ELSE c.listenport

\* the commands of one provisioner invocation, in the order of lines 89-91
Verbs == <<"portproxy delete", "portproxy add", "firewall add">>

\* C16: within one provisioner invocation the host commands are issued in the
\* order delete, add-forward, add-firewall-allow, each once: the add is
\* issued whether or not the delete succeeded and the firewall command
\* whether or not the add succeeded, and all carry the same listen port.
C16_CommandOrder ==
    /\ pp.calls = <<>> => pp.cmds = <<>>
    /\ pp.calls # <<>> =>
         /\ Len(pp.cmds) <= 3
         /\ \A k \in 1..Len(pp.cmds) :
              /\ pp.cmds[k].cmd.verb = Verbs[k]
              /\ ListenPortOf(pp.cmds[k].cmd) = Args.listen_port
         /\ pc = "pp_del" => Len(pp.cmds) = 0
         /\ pc = "pp_add" => Len(pp.cmds) = 1
         /\ pc = "pp_fw" => Len(pp.cmds) = 2
         /\ pc \in {"pp_report", "thread", "app_run", "serving"} => Len(pp.cmds) = 3

C16_Witness ==
    /\ Len(pp.cmds) = 3
    /\ pp.cmds[1].returncode # 0
    /\ pp.cmds[2].returncode # 0
    /\ pp.cmds[3].returncode = 0
    /\ Args.listen_port # DEFAULT_PORT

\* run() is inside ensure_windows_portproxy (lines 84-105)
Provisioning == pc \in {"pp_del", "pp_add", "pp_fw", "pp_report"}

\* C17: startup goes in a fixed order: the advertise IP is resolved, then the
\* provisioner (when it is needed) runs to its end, then the broadcaster
\* thread is started, then the HTTP server listens; and the service record's
\* port, the HTTP listen port and the forward rule's listen and target ports
\* are one value.
C17_StartupOrder ==
    /\ (Provisioning \/ pc = "thread") =>
         /\ loc.advertise_ip # <<>>
         /\ bcast.pc = "none" /\ zc.handle = "none" /\ http.state = "off"
    /\ bcast.pc # "none" =>
         /\ pc \in {"app_run", "serving"}
         /\ bcast.advertise_ip # <<>>
         /\ pp.calls # <<>> => (Len(pp.cmds) = 3 /\ pp.report # "none")
         /\ bcast.port = environ.QSHARE_PORT
    /\ http.state = "serving" => (pc = "serving" /\ bcast.pc # "none")
    /\ http.state = "serving" => http.port = environ.QSHARE_PORT
    /\ zc.registered => zc.port = environ.QSHARE_PORT
    /\ \A k \in 1..Len(pp.calls) :
         /\ pp.calls[k].listen_port = environ.QSHARE_PORT
         /\ pp.calls[k].wsl_port = environ.QSHARE_PORT
    /\ \A k \in 1..Len(pp.cmds) :
         /\ ListenPortOf(pp.cmds[k].cmd) = environ.QSHARE_PORT
         /\ pp.cmds[k].cmd.verb = "portproxy add" =>
              pp.cmds[k].cmd.connectport = environ.QSHARE_PORT
    /\ pp.report = "ok" =>
         \E m \in host.proxy :
              /\ m.listenaddress = loc.advertise_ip
              /\ m.listenport = http.port \/ http.state = "off"
              /\ m.listenport = m.connectport
              /\ zc.registered => m.listenport = zc.port

C17_Witness ==
    /\ http.state = "serving"
    /\ zc.registered
    /\ pp.report = "ok"
    /\ http.port # DEFAULT_PORT
    /\ \E m \in host.proxy : m.listenport = http.port /\ m.connectport = zc.port

\* the error the three validations give a request, none for a valid one
ExpectedError(req) ==
    IF ~req.hasFile THEN "No file field"
    ELSE IF Len(req.raw) = 0 THEN "Empty filename"
    ELSE IF Len(secure_filename(req.raw)) = 0 THEN "Invalid filename"
    ELSE "none"

\* request thread w answers, or has just answered, with a rejection
Rejecting(w) == up[w].pc = "rejected" \/ up'[w].pc = "rejected"

\* C14: an upload request is rejected with HTTP 400 and ok=false in three
\* cases, looked at in this order: no file field ("No file field"), an empty
\* filename ("Empty filename"), a filename that sanitizes to nothing
\* ("Invalid filename"); and rejecting a request leaves the shared directory
\* as it is.
C14_Rejections ==
    /\ [](\A w \in Workers :
            up[w].pc = "rejected" =>
                /\ ExpectedError(up[w].request) # "none"
                /\ up[w].response =
                     [ok |-> FALSE, code |-> 400, error |-> ExpectedError(up[w].request)])
    /\ [][\A w \in Workers :
            (Rejecting(w) /\ up'[w] # up[w]) => shared' = shared]_vars

C14_Witness ==
    \E w, v \in Workers :
        /\ up[w].pc = "rejected"
        /\ up[w].request.hasFile /\ up[w].request.raw # <<>>
        /\ up[w].response.error = "Invalid filename"
        /\ Active(v)
        /\ shared # up[w].snap

\* the names of a listing, and where a name stands in it
NamesOf(files) == {files[k].name : k \in 1..Len(files)}
IndexOf(files, n) == CHOOSE k \in 1..Len(files) : files[k].name = n

\* C15: list() returns one entry per regular file directly in the shared
\* directory and none for a subdirectory or a special file, ordered by
\* modification time in whole seconds, greater first (b.t of second 200
\* before a.t of second 100); it is computed from the directory at each
\* call, so every upload completed before the call is in it.
C15_Listing ==
    ls.pc = "sent" =>
        LET files == ls.files
            regular == {n \in DOMAIN shared : shared[n].kind = "file"}
        IN  /\ NamesOf(files) = regular
            /\ Len(files) = Cardinality(regular)
            /\ \A k \in 1..Len(files) :
                 /\ files[k].size = Len(shared[files[k].name].data)
                 /\ files[k].mtime * TicksPerSecond <= mtime[files[k].name]
                 /\ mtime[files[k].name] < (files[k].mtime + 1) * TicksPerSecond
            /\ \A i, j \in 1..Len(files) :
                 files[i].mtime > files[j].mtime => i < j
            /\ (at \in regular /\ bt \in regular
                  /\ mtime[at] = 100 * TicksPerSecond /\ mtime[bt] = 200 * TicksPerSecond)
                 => IndexOf(files, bt) < IndexOf(files, at)
            /\ \A k \in 1..Len(hist) : hist[k].savedAs \in NamesOf(files)

C15_Witness ==
    /\ ls.pc = "sent"
    /\ {<<"d">>, at, bt} \subseteq DOMAIN shared
    /\ Len(hist) >= 1
    /\ ls.files[1].name = hist[1].savedAs
    /\ mtime[at] = 100 * TicksPerSecond /\ mtime[bt] = 200 * TicksPerSecond
    /\ IndexOf(ls.files, bt) = 2 /\ IndexOf(ls.files, at) = 3

\* one of the orders os.listdir may return
RECURSIVE AnyOrder(_)
AnyOrder(names) ==
    IF names = {} THEN <<>>
    ELSE LET n == CHOOSE n \in names : TRUE IN <<n>> \o AnyOrder(names \ {n})

\* the names GET /api/list returns now
Listed == NamesOf(list_shared_files(AnyOrder(DOMAIN shared), shared, mtime))

\* download takes the name as it is and sends the file of that name
Accepted(n) ==
    /\ basename(n) = n
    /\ download(n, shared) =
         [status |-> 200, attachment |-> n, at |-> "shared", data |-> shared[n].data]

\* request thread w's upload is listed, and downloads as it was uploaded
RoundTrip(w) ==
    /\ up[w].filename \in Listed
    /\ download(up[w].filename, shared).status = 200
    /\ download(up[w].filename, shared).data = up[w].content

\* no other request thread has the file of w's upload open: nothing changes
\* that file from here on
Settled(w) ==
    \A v \in Workers \ {w} :
        up[v].pc \in {"open", "write"} => up[v].out_path # up[w].out_path

\* C18 as stated: when an upload returns savedAs = s and that file is not
\* changed later, list() has an entry named s and download(s) returns
\* exactly the uploaded content; and every name list() returns is accepted
\* by download.
C18_RoundTrip ==
    /\ \A w \in Workers : (up[w].pc = "return" /\ Settled(w)) => RoundTrip(w)
    /\ \A n \in Listed : Accepted(n)

\* C18: when an upload that overlapped no other upload returns savedAs = s,
\* list() has an entry named s and download(s) returns exactly the uploaded
\* content; and every name list() returns is accepted by download: it is its
\* own last path component and names that file.
C18_RoundTripAlone ==
    /\ \A w \in Workers : Returning(w) => RoundTrip(w)
    /\ \A n \in Listed : Accepted(n)

C18_Witness ==
    \E w \in Workers :
        /\ Returning(w)
        /\ up[w].num = 2
        /\ up[w].filename \in Listed
        /\ Len(up[w].content) = 2
        /\ download(up[w].filename, shared).data = up[w].content

\* C19: every upload with a valid filename terminates: the search loop has
\* made no more turns than the directory has entries, and the request comes
\* to return ok=true with the name it saved under, a file of the directory.
C19_UploadsTerminate ==
    /\ [](\A w \in Workers :
            /\ up[w].pc = "loop" => up[w].i <= Cardinality(DOMAIN shared)
            /\ up[w].pc = "return" =>
                 /\ Saved(up[w]).ok /\ Saved(up[w]).savedAs = up[w].filename
                 /\ isfile(join(SHARED_DIR, up[w].filename), shared))
    /\ \A w \in Workers : Active(w) ~> (up[w].pc = "return")
    /\ \A w \in Workers : (up[w].pc = "return") ~> (up[w].pc = "idle")

C19_Witness ==
    \E w \in Workers :
        /\ up[w].pc = "return"
        /\ up[w].i = 3
        /\ up[w].overlapped
        /\ Len(hist) = MaxUploads - 1
============================================================================
